---- MODULE Spec2Model ----
\* A model of @axhxrx/write-new-file: tryCreateFile (temp file, hard link,
\* remove temp) and writeNewFile (plain name, then ~second stamp, then
\* ~second stamp +milliseconds), running concurrently against one filesystem.
\* Paths, stamps and file contents are sequences of character / byte codes.
EXTENDS Integers, Sequences, FiniteSets, TLC

VARIABLES
    fs,        \* the filesystem: path -> content, DOMAIN fs = entries that exist
    fs0,       \* the filesystem before the first call (never changes)
    now,       \* the wall clock, in milliseconds since Epoch
    calls,     \* per call: inputs, locals and position of writeNewFile / tryCreateFile
    faults,    \* number of I/O faults the filesystem may still raise
    firstLink, \* history: path -> the call whose link step reached that path first
    removed,   \* history: paths removed by an external process (rmSync in the tests)
    hist,      \* history, kept for sequential runs: when each call ran and what it found
    defaultOptions, \* WriteNewOptionsDefaults._defaultOptions
    lastSet,   \* history: the value last assigned to WriteNewOptions.default
    cli        \* per call: whether main() made it, and what the process printed and exited with

vars == <<fs, fs0, now, calls, faults, firstLink, removed, hist, defaultOptions, lastSet, cli>>

\* The state of the default options and of the command line processes.
app == <<defaultOptions, lastSet, cli>>

----------------------------------------------------------------------------
\* Bounds of the model.

NCalls == 2        \* number of calls (writeNewFile or tryCreateFile) in a run
MaxTicks == 3      \* number of clock ticks in a run
TickMs == 60       \* milliseconds per clock tick (not less than the sleep)
InitialMs == 880   \* the clock's millisecond offset into the Epoch second at the start
MaxFaults == 1     \* number of I/O faults (other than AlreadyExists) in a faulty run
MaxLiveTicks == 6  \* number of clock ticks in a run to completion
EarlyTicks == 2    \* number of clock ticks by which a long run starts before InitialMs
SleepMs == 50      \* sleep(50) of writeNewFile

Calls == 1 .. NCalls

----------------------------------------------------------------------------
\* Characters and strings (character codes).

Slash == <<47>>
Backslash == <<92>>
Dot == <<46>>
Tilde == <<126>>
Plus == <<43>>
Dash == <<45>>
Zero == <<48>>
TempMarker == <<46, 95, 95, 116, 101, 109, 112, 95, 95>>   \* ".__temp__"

DirOut == <<100>>          \* "d", an output directory that exists
DirMissing == <<109>>      \* "m", an output directory that does not exist
NameWithExt == <<97, 46, 116>>   \* "a.t"
NameNoExt == <<97>>              \* "a"

ProposedNames == {NameWithExt, NameNoExt}
OutputDirs == {DirOut, DirMissing}
Cwd == <<99>>             \* "c", Deno.cwd(), which exists
ExistingDirs == {DirOut, Cwd}

\* undefined and null, and the mark of a default that was never assigned.
Undefined == [undefined |-> TRUE]
Null == [null |-> TRUE]
Never == [never |-> TRUE]

\* JavaScript string comparison a < b: by UTF-16 code units, a proper prefix first.
RECURSIVE LexLess(_, _)
LexLess(a, b) ==
    IF b = <<>> THEN FALSE
    ELSE IF a = <<>> THEN TRUE
    ELSE IF a[1] # b[1] THEN a[1] < b[1]
    ELSE LexLess(Tail(a), Tail(b))

\* Index of the last element of s that is in chars, 0 when there is none.
LastIndexOf(s, chars) ==
    LET found == {i \in 1 .. Len(s) : s[i] \in chars}
    IN  IF found = {} THEN 0 ELSE CHOOSE i \in found : \A j \in found : j <= i

\* Number.prototype.toString() of a natural number.
RECURSIVE NumToString(_)
NumToString(n) ==
    IF n < 10 THEN <<Zero[1] + n>>
    ELSE NumToString(n \div 10) \o <<Zero[1] + (n % 10)>>

\* String.prototype.padStart(width, pad) with a one-character pad.
RECURSIVE PadStart(_, _, _)
PadStart(s, width, pad) ==
    IF Len(s) >= width THEN s ELSE PadStart(pad \o s, width, pad)

----------------------------------------------------------------------------
\* Dates. A Date is a number of milliseconds since the start of the Epoch second;
\* the getters give its local-time fields. Runs are far shorter than a day, so
\* the calendar date is the Epoch's.

Epoch == [year |-> 2024, month |-> 11, day |-> 22, hours |-> 16, minutes |-> 39, seconds |-> 59]

SecondOfDay(date) ==
    Epoch.hours * 3600 + Epoch.minutes * 60 + Epoch.seconds + (date \div 1000)

GetFullYear(date) == Epoch.year
GetMonth(date) == Epoch.month
GetDate(date) == Epoch.day
GetHours(date) == (SecondOfDay(date) \div 3600) % 24
GetMinutes(date) == (SecondOfDay(date) \div 60) % 60
GetSeconds(date) == SecondOfDay(date) % 60
GetMilliseconds(date) == date % 1000

\* formatDateForFilenameSuffix(date, replaceSpaceWith, replaceColonWith)
FormatDateWith(date, replaceSpaceWith, replaceColonWith) ==
    LET colon == replaceColonWith
        space == replaceSpaceWith
        yyyy == PadStart(NumToString(GetFullYear(date)), 4, Zero)
        MM == PadStart(NumToString(GetMonth(date) + 1), 2, Zero)
        dd == PadStart(NumToString(GetDate(date)), 2, Zero)
        hh == PadStart(NumToString(GetHours(date)), 2, Zero)
        mm == PadStart(NumToString(GetMinutes(date)), 2, Zero)
        ss == PadStart(NumToString(GetSeconds(date)), 2, Zero)
    IN  yyyy \o Dash \o MM \o Dash \o dd \o space \o hh \o colon \o mm \o colon \o ss

\* formatDateForFilenameSuffix(date), both separators defaulted to '-'
FormatDateForFilenameSuffix(date) == FormatDateWith(date, Dash, Dash)

\* Mutant: the seconds are taken in place of the milliseconds.
MsStrOfSeconds(date) == PadStart(NumToString(GetSeconds(date)), 3, Zero)

\* Mutant: the milliseconds without padStart.
MsStrUnpadded(date) == NumToString(GetMilliseconds(date))

\* newNow.getMilliseconds().toString().padStart(3, '0')
MsStr(date) == PadStart(NumToString(GetMilliseconds(date)), 3, Zero)

----------------------------------------------------------------------------
\* Paths (@std/path, POSIX flavour).

\* Mutant: the directory and the base joined without a separator.
FormatNoSeparator(dir, base) == dir \o base

\* format({dir, base})
FormatDirBase(dir, base) == IF dir = <<>> THEN base ELSE dir \o Slash \o base

\* parse(path): dir, base, name and ext. ext starts at the last dot of base,
\* unless base has no dot or starts with its only dot.
Parse(path) ==
    LET i == LastIndexOf(path, {Slash[1]})
        base == SubSeq(path, i + 1, Len(path))
        dir == IF i <= 1 THEN SubSeq(path, 1, i) ELSE SubSeq(path, 1, i - 1)
        j == LastIndexOf(base, {Dot[1]})
        ext == IF j <= 1 THEN <<>> ELSE SubSeq(base, j, Len(base))
    IN  [dir |-> dir, base |-> base, ext |-> ext,
         name |-> SubSeq(base, 1, Len(base) - Len(ext))]

\* Mutant: the suffix appended after the extension.
BuildPathAfterExt(parsed, dateString) ==
    FormatDirBase(parsed.dir, parsed.name \o parsed.ext \o Tilde \o dateString)

\* buildPath(dateString) of writeNewFile: format({dir, name: name~dateString, ext})
BuildPath(parsed, dateString) ==
    FormatDirBase(parsed.dir, parsed.name \o Tilde \o dateString \o parsed.ext)

\* path.replace(/[/\\]([^/\\]+)$/, '/.__temp__$1') + '.' + uuid
TempPathOf(path, uuid) ==
    LET i == LastIndexOf(path, {Slash[1], Backslash[1]})
        replaced ==
            IF i = 0 \/ i = Len(path) THEN path
            ELSE SubSeq(path, 1, i - 1) \o Slash \o TempMarker
                     \o SubSeq(path, i + 1, Len(path))
    IN  replaced \o Dot \o uuid

\* new TextEncoder().encode(content) for a string of code points below 2048;
\* a Uint8Array is passed through.
RECURSIVE Utf8(_)
Utf8(str) ==
    IF str = <<>> THEN <<>>
    ELSE (IF str[1] < 128 THEN <<str[1]>>
          ELSE <<192 + (str[1] \div 64), 128 + (str[1] % 64)>>) \o Utf8(Tail(str))

Encode(content) == IF content.isString THEN Utf8(content.value) ELSE content.value

\* The contents callers pass: a Uint8Array, and a string with a two-byte character.
Contents == {[isString |-> FALSE, value |-> <<1, 2>>],
             [isString |-> TRUE, value |-> <<233>>]}

\* The payload plays no part in whether a call returns or faults: one payload
\* is enough where only the outcome matters.
LiveContents == {[isString |-> TRUE, value |-> <<233>>]}

\* The directories a run may start from: empty, or holding the plain names and
\* the names stamped with the Epoch second, left there by earlier writers.
OldA == <<7>>
OldB == <<8, 9>>
StampedAtEpoch(name) == BuildPath(Parse(FormatDirBase(DirOut, name)), FormatDateForFilenameSuffix(0))
InitialDirectories ==
    { <<>>,
      [p \in {FormatDirBase(DirOut, n) : n \in ProposedNames} |-> OldA],
      [p \in {FormatDirBase(DirOut, n) : n \in ProposedNames}
               \cup {StampedAtEpoch(n) : n \in ProposedNames}
          |-> IF p \in {FormatDirBase(DirOut, n) : n \in ProposedNames} THEN OldA ELSE OldB] }

----------------------------------------------------------------------------
\* The filesystem operations the code calls.

\* Deno.open(tempPath, {write: true, createNew: true}): a new empty file.
CreateNew(fsys, tempPath) == (tempPath :> <<>>) @@ fsys

\* Mutant: the data never reaches the temp file before it is linked.
WriteNothing(fsys, tempPath, data) == fsys

\* file.write(data) on the file just opened; the bytes go to the open file, which
\* has a directory entry unless somebody removed it meanwhile.
WriteAll(fsys, tempPath, data) ==
    IF tempPath \in DOMAIN fsys THEN [fsys EXCEPT ![tempPath] = @ \o data] ELSE fsys

\* Deno.link(tempPath, path): a second name for the temp file's data; the caller
\* has found path absent.
Link(fsys, tempPath, path) == (path :> fsys[tempPath]) @@ fsys

\* Deno.remove(tempPath)
Remove(fsys, tempPath) == [p \in DOMAIN fsys \ {tempPath} |-> fsys[p]]

\* Mutant: publishing by Deno.rename, which never throws AlreadyExists.
RenameCollides(fsys, path) == FALSE

\* Mutant: Deno.link reports AlreadyExists whatever the directory holds.
AlwaysCollides(fsys, path) == TRUE

\* Whether Deno.link(tempPath, path) throws AlreadyExists.
LinkCollides(fsys, path) == path \in DOMAIN fsys

\* Mutant: the finally block removes the target instead of the temp entry.
CleanupTarget(rec) == rec.path

\* Mutant: the finally block removes nothing.
CleanupNothing(rec) == <<>>

\* The entry the finally block removes.
CleanupPath(rec) == rec.tempPath

\* Mutant: writeNewFile returns the proposed path whichever candidate it created.
ReturnedProposedPath(rec) == rec.filePath

\* Mutant: writeNewFile returns the temp path of the attempt that succeeded.
ReturnedTempPath(rec) == rec.tempPath

\* The path writeNewFile returns after a create attempt that succeeded.
ReturnedPath(rec) == rec.path

\* Mutant: every failure of an attempt is reported as one generic error.
ThrowGeneric(err) == "Error"

\* catch (err) { ... throw err; } of tryCreateFile; writeNewFile has no catch
\* around its attempts.
Rethrow(err) == err

\* Mutant: a failure to remove the temp entry is thrown to the caller.
SurfaceRemoveFailure(ret, failed) == IF failed THEN "throw" ELSE ret

\* finally { try { await Deno.remove(tempPath) } catch {} }: the outcome decided
\* before the finally block stands whether the removal failed or not.
AfterRemove(ret, failed) == ret

\* Mutant: the directory check never reports a missing directory.
NeverMissing(dir) == FALSE

\* Whether Deno.readDirSync(outputDirectory) throws NotFound.
DirectoryMissing(dir) == dir \notin ExistingDirs

\* Mutant: the getter ignores the stored default.
DefaultIgnoresStored(stored) == [outputDirectory |-> Cwd]

\* get defaultOptions(): this._defaultOptions ?? { outputDirectory: Deno.cwd() }
DefaultOptionsGet(stored) ==
    IF stored \in {Undefined, Null} THEN [outputDirectory |-> Cwd] ELSE stored

\* options ?? WriteNewOptions.default
ResolveOptions(options) ==
    IF options \in {Undefined, Null} THEN DefaultOptionsGet(defaultOptions) ELSE options

\* Whether the filesystem may raise an I/O fault (disk full, permission, ...) now.
FaultChoices == IF faults > 0 THEN {FALSE, TRUE} ELSE {FALSE}

\* Mutant: every call uses the same token.
FixedToken(path) == NumToString(0)

\* crypto.randomUUID(): a token no temp entry and no call in flight uses.
RandomUUID(path) ==
    LET used == DOMAIN fs \cup {calls[c].tempPath : c \in Calls}
        k == CHOOSE k \in 0 .. (NCalls + MaxFaults + 1) :
                 /\ TempPathOf(path, NumToString(k)) \notin used
                 /\ \A j \in 0 .. (k - 1) : TempPathOf(path, NumToString(j)) \in used
    IN  NumToString(k)

----------------------------------------------------------------------------
\* Calls.

IdleCall ==
    [kind |-> "none", pc |-> "idle", proposedFilename |-> <<>>, outputDirectory |-> <<>>,
     data |-> <<>>, filePath |-> <<>>, stage |-> "none", baseDateStr |-> <<>>,
     path |-> <<>>, tempPath |-> <<>>, ret |-> "none", result |-> <<>>,
     created |-> FALSE, err |-> "none", sleepFrom |-> 0, leaked |-> {},
     options |-> Undefined, tried |-> <<>>]

\* A process that has not run main().
IdleProcess == [main |-> FALSE, stdout |-> <<>>, stderr |-> <<>>, exitCode |-> -1]

Finished(c) == calls[c].pc \in {"returned", "threw"}
InFlight(c) == calls[c].pc \notin {"idle", "returned", "threw"}

\* Calls are started in the order of their ids.
MayStart(c) ==
    /\ calls[c].pc = "idle"
    /\ \A b \in Calls : b < c => calls[b].pc # "idle"

\* tryCreateFile(path, data) up to its first await: the call to Deno.open.
\* The path argument is evaluated once, then used for path and tempPath.
\* tried is history: the attempts the call has made, in order.
BeginTry(rec, stage, path) ==
    LET Try(p) == [rec EXCEPT !.stage = stage, !.path = p,
                              !.tempPath = TempPathOf(p, RandomUUID(p)),
                              !.pc = "open", !.ret = "none",
                              !.tried = Append(@, [stage |-> stage, path |-> p,
                                                   baseDateStr |-> rec.baseDateStr])]
    IN  CHOOSE try \in {Try(p) : p \in {path}} : TRUE

\* Mutant: step 1 of the loop tries the plain proposed name again.
TryPlainAgain(rec, date) ==
    BeginTry([rec EXCEPT !.baseDateStr = FormatDateForFilenameSuffix(date)], "S1", rec.filePath)

\* writeNewFile, step 1 of its loop: the second-resolution candidate.
TrySecond(rec, date) ==
    LET baseDateStr == FormatDateForFilenameSuffix(date)
        candidateNoMs == BuildPath(Parse(rec.filePath), baseDateStr)
    IN  BeginTry([rec EXCEPT !.baseDateStr = baseDateStr], "S1", candidateNoMs)

\* Mutant: after the sleep the loop sleeps again without trying a name.
SleepAgain(rec, newNow) == [rec EXCEPT !.sleepFrom = newNow]

\* Mutant: after the sleep the millisecond candidate is built from the
\* remembered second, whatever the clock says.
AfterSleepStale(rec, newNow) ==
    BeginTry(rec, "S2", BuildPath(Parse(rec.filePath), rec.baseDateStr \o Plus \o MsStr(newNow)))

\* Mutant: after the sleep the candidate is built in the directory the options
\* resolve to now, not in the one resolved at the start of the call.
AfterSleepReresolved(rec, newNow) ==
    LET dir == ResolveOptions(rec.options).outputDirectory
        parsed == Parse(FormatDirBase(dir, rec.proposedFilename))
    IN  IF FormatDateForFilenameSuffix(newNow) # rec.baseDateStr
        THEN BeginTry([rec EXCEPT !.baseDateStr = FormatDateForFilenameSuffix(newNow)], "S1",
                      BuildPath(parsed, FormatDateForFilenameSuffix(newNow)))
        ELSE BeginTry(rec, "S2", BuildPath(parsed, rec.baseDateStr \o Plus \o MsStr(newNow)))

\* writeNewFile, after the sleep: a new second sends it back to step 1, the
\* same second makes the millisecond candidate.
AfterSleep(rec, newNow) ==
    IF FormatDateForFilenameSuffix(newNow) # rec.baseDateStr
    THEN TrySecond(rec, newNow)
    ELSE LET candidateMs ==
                 BuildPath(Parse(rec.filePath), rec.baseDateStr \o Plus \o MsStr(newNow))
         IN  BeginTry(rec, "S2", candidateMs)

\* writeNewFile(proposedFilename, content, options) up to its first await.
StartWriteNewFile(c, proposedFilename, content, options) ==
    /\ MayStart(c)
    /\ \E fault \in FaultChoices :
         LET resolvedOptions == ResolveOptions(options)
             rec == [IdleCall EXCEPT !.kind = "wnf",
                         !.options = options,
                         !.proposedFilename = proposedFilename,
                         !.outputDirectory = resolvedOptions.outputDirectory,
                         !.data = Encode(content),
                         !.filePath = FormatDirBase(resolvedOptions.outputDirectory,
                                                    proposedFilename)]
         IN  IF DirectoryMissing(resolvedOptions.outputDirectory)
             THEN /\ calls' = [calls EXCEPT ![c] =
                        [rec EXCEPT !.pc = "threw", !.err = "NobodyCannaCrossIt"]]
                  /\ fault = FALSE
                  /\ UNCHANGED faults
             ELSE IF fault
             THEN /\ calls' = [calls EXCEPT ![c] =
                        [rec EXCEPT !.pc = "threw", !.err = "IOFault"]]
                  /\ faults' = faults - 1
             ELSE /\ calls' = [calls EXCEPT ![c] = BeginTry(rec, "S0", rec.filePath)]
                  /\ UNCHANGED faults
    /\ UNCHANGED <<fs, fs0, now, firstLink, removed>>

\* tryCreateFile(path, content), called directly, up to its first await.
StartTryCreateFile(c, path, content) ==
    /\ MayStart(c)
    /\ calls' = [calls EXCEPT ![c] =
           BeginTry([IdleCall EXCEPT !.kind = "tcf", !.data = Encode(content), !.filePath = path],
                    "direct", path)]
    /\ UNCHANGED <<fs, fs0, now, faults, firstLink, removed>>

\* await Deno.open(tempPath, {write: true, createNew: true})
Open(c) ==
    /\ calls[c].pc = "open"
    /\ \E fault \in FaultChoices :
         IF calls[c].tempPath \in DOMAIN fs
         THEN /\ fault = FALSE
              /\ calls' = [calls EXCEPT ![c].pc = "remove", ![c].ret = "false"]
              /\ UNCHANGED <<fs, faults>>
         ELSE IF fault
         THEN /\ calls' = [calls EXCEPT ![c].pc = "remove", ![c].ret = "throw",
                                        ![c].err = "OpenFault"]
              /\ faults' = faults - 1
              /\ UNCHANGED fs
         ELSE /\ fs' = CreateNew(fs, calls[c].tempPath)
              /\ calls' = [calls EXCEPT ![c].pc = "write"]
              /\ UNCHANGED faults
    /\ UNCHANGED <<fs0, now, firstLink, removed>>

\* await file.write(data), then file.close()
Write(c) ==
    /\ calls[c].pc = "write"
    /\ \E fault \in FaultChoices :
         IF fault
         THEN /\ calls' = [calls EXCEPT ![c].pc = "remove", ![c].ret = "throw",
                                        ![c].err = "WriteFault"]
              /\ faults' = faults - 1
              /\ UNCHANGED fs
         ELSE /\ fs' = WriteAll(fs, calls[c].tempPath, calls[c].data)
              /\ calls' = [calls EXCEPT ![c].pc = "link"]
              /\ UNCHANGED faults
    /\ UNCHANGED <<fs0, now, firstLink, removed>>

\* await Deno.link(tempPath, path), and the return or catch that follows it
LinkStep(c) ==
    /\ calls[c].pc = "link"
    /\ \E fault \in FaultChoices :
         IF fault
         THEN /\ calls' = [calls EXCEPT ![c].pc = "remove", ![c].ret = "throw",
                                        ![c].err = "LinkFault"]
              /\ faults' = faults - 1
              /\ UNCHANGED <<fs, firstLink>>
         ELSE IF calls[c].tempPath \notin DOMAIN fs
         THEN /\ calls' = [calls EXCEPT ![c].pc = "remove", ![c].ret = "throw",
                                        ![c].err = "NotFound"]
              /\ UNCHANGED <<fs, firstLink, faults>>
         ELSE /\ IF LinkCollides(fs, calls[c].path)
                 THEN /\ calls' = [calls EXCEPT ![c].pc = "remove", ![c].ret = "false"]
                      /\ UNCHANGED fs
                 ELSE /\ fs' = Link(fs, calls[c].tempPath, calls[c].path)
                      /\ calls' = [calls EXCEPT ![c].pc = "remove", ![c].ret = "true"]
              /\ firstLink' = IF calls[c].path \in DOMAIN firstLink THEN firstLink
                              ELSE (calls[c].path :> c) @@ firstLink
              /\ UNCHANGED faults
    /\ UNCHANGED <<fs0, now, removed>>

\* finally: await Deno.remove(tempPath), any failure swallowed
RemoveTemp(c) ==
    /\ calls[c].pc = "remove"
    /\ \E fault \in FaultChoices :
         /\ IF fault
            THEN /\ faults' = faults - 1
                 /\ UNCHANGED fs
            ELSE /\ fs' = Remove(fs, CleanupPath(calls[c]))
                 /\ UNCHANGED faults
         /\ calls' = [calls EXCEPT ![c].pc = "resume",
                                   ![c].ret = AfterRemove(calls[c].ret, fault),
                                   ![c].leaked = IF fault THEN @ \cup {calls[c].tempPath} ELSE @]
    /\ UNCHANGED <<fs0, now, firstLink, removed>>

\* tryCreateFile settles and its caller runs on to its next await or its end.
Resume(c) ==
    /\ calls[c].pc = "resume"
    /\ LET rec == calls[c]
       IN  calls' = [calls EXCEPT ![c] =
               IF rec.ret = "throw"
               THEN [rec EXCEPT !.pc = "threw", !.err = Rethrow(rec.err)]
               ELSE IF rec.kind = "tcf"
               THEN [rec EXCEPT !.pc = "returned", !.created = (rec.ret = "true")]
               ELSE IF rec.ret = "true"
               THEN [rec EXCEPT !.pc = "returned", !.result = ReturnedPath(rec)]
               ELSE IF rec.stage = "S0"
               THEN TrySecond(rec, now)
               ELSE [rec EXCEPT !.pc = "sleep", !.sleepFrom = now]]
    /\ UNCHANGED <<fs, fs0, now, faults, firstLink, removed>>

\* The usage text of main.ts and what stands on standard input.
Usage == <<85>>
Stdin == <<233, 233>>

\* Deno.args as parseArgs reads them: --help, the positional arguments, --dir
\* (<<>> when not given) and --from-stdin.
MainArgs ==
    {[help |-> TRUE, positional |-> <<NameWithExt>>, dir |-> <<>>, fromStdin |-> FALSE],
     [help |-> FALSE, positional |-> <<>>, dir |-> DirOut, fromStdin |-> FALSE],
     [help |-> FALSE, positional |-> <<NameWithExt>>, dir |-> <<>>, fromStdin |-> TRUE],
     [help |-> FALSE, positional |-> <<NameWithExt, <<233>>>>, dir |-> DirOut, fromStdin |-> FALSE],
     [help |-> FALSE, positional |-> <<NameWithExt, <<233>>>>, dir |-> DirMissing, fromStdin |-> FALSE]}

\* Mutant: the process exits with status 0 whatever happened.
AlwaysZero(succeeded) == 0

\* Deno.exit(0) after console.log, Deno.exit(1) after console.error
ExitStatus(succeeded) == IF succeeded THEN 0 ELSE 1

\* main() up to its await of writeNewFile, or up to Deno.exit(0) after the usage.
StartMain(c, args) ==
    /\ IF args.help \/ Len(args.positional) < 1
       THEN /\ MayStart(c)
            /\ cli' = [cli EXCEPT ![c] = [main |-> TRUE, stdout |-> <<Usage>>,
                                          stderr |-> <<>>, exitCode |-> 0]]
            /\ calls' = [calls EXCEPT ![c] = [IdleCall EXCEPT !.kind = "main", !.pc = "returned"]]
            /\ UNCHANGED <<fs, fs0, now, faults, firstLink, removed>>
       ELSE LET proposedFilename == args.positional[1]
                given == IF Len(args.positional) > 1 THEN args.positional[2] ELSE <<>>
                content == IF given = <<>> /\ args.fromStdin THEN Stdin ELSE given
                options == IF args.dir # <<>> THEN [outputDirectory |-> args.dir]
                           ELSE Undefined
            IN  /\ StartWriteNewFile(c, proposedFilename,
                                     [isString |-> TRUE, value |-> content], options)
                /\ cli' = [cli EXCEPT ![c].main = TRUE]
    /\ UNCHANGED <<hist, defaultOptions, lastSet>>

\* main() after writeNewFile settled: console.log(actualPath) and Deno.exit(0),
\* or the catch block's console.error and Deno.exit(1).
MainSettle(c) ==
    /\ cli[c].main /\ cli[c].exitCode = -1
    /\ calls[c].kind = "wnf" /\ Finished(c)
    /\ cli' = [cli EXCEPT ![c] =
           IF calls[c].pc = "returned"
           THEN [@ EXCEPT !.stdout = Append(@, calls[c].result),
                          !.exitCode = ExitStatus(TRUE)]
           ELSE [@ EXCEPT !.stderr = Append(@, [message |-> "Error writing file: ",
                                                err |-> calls[c].err]),
                          !.exitCode = ExitStatus(FALSE)]]
    /\ UNCHANGED <<fs, fs0, now, calls, faults, firstLink, removed, hist, defaultOptions, lastSet>>

\* WriteNewOptions.default = options
SetDefault(options) ==
    /\ defaultOptions' = (IF options \in {Undefined, Null} THEN Undefined ELSE options)
    /\ lastSet' = options
    /\ UNCHANGED <<fs, fs0, now, calls, faults, firstLink, removed, hist, cli>>

\* The sleep(50) timer fires: new Date() is read and the loop goes on.
Wake(c) ==
    /\ calls[c].pc = "sleep"
    /\ now >= calls[c].sleepFrom + SleepMs
    /\ calls' = [calls EXCEPT ![c] = AfterSleep(calls[c], now)]
    /\ UNCHANGED <<fs, fs0, now, faults, firstLink, removed>>

\* Time passes.
Tick ==
    /\ now + TickMs <= InitialMs + MaxTicks * TickMs
    /\ now' = now + TickMs
    /\ UNCHANGED <<fs, fs0, calls, faults, firstLink, removed>>

\* An external process removes a file (rmSync of the tests) while no call runs.
ExternalRemove(path) ==
    /\ path \in DOMAIN fs
    /\ removed = {}
    /\ \A c \in Calls : ~InFlight(c)
    /\ \E c \in Calls : calls[c].pc = "idle"
    /\ fs' = Remove(fs, path)
    /\ removed' = removed \cup {path}
    /\ UNCHANGED <<fs0, now, calls, faults, firstLink>>

\* An external process removes a plain-named file while a call is running.
Unlink(path) ==
    /\ path \in DOMAIN fs
    /\ path \in {calls[c].filePath : c \in Calls}
    /\ removed = {}
    /\ \E c \in Calls : InFlight(c)
    /\ fs' = Remove(fs, path)
    /\ removed' = removed \cup {path}
    /\ UNCHANGED <<fs0, now, calls, faults, firstLink>>

----------------------------------------------------------------------------
\* Specifications.

Init ==
    /\ fs \in InitialDirectories
    /\ fs0 = fs
    /\ now = InitialMs
    /\ calls = [c \in Calls |-> IdleCall]
    /\ faults = 0
    /\ firstLink = <<>>
    /\ removed = {}
    /\ hist = [c \in Calls |-> [startSec |-> 0, s1Sec |-> 0, endSec |-> 0, pre |-> {}, before |-> {}]]
    /\ defaultOptions = Undefined
    /\ lastSet = Never
    /\ cli = [c \in Calls |-> IdleProcess]

\* All calls of a run propose the same file name, as in the tests.
NamesNow ==
    IF \A c \in Calls : calls[c].pc = "idle" THEN ProposedNames
    ELSE {Parse(calls[c].filePath).base : c \in {b \in Calls : calls[b].pc # "idle"}}

\* The paths tryCreateFile is called with directly: with a directory component
\* and without one.
DirectPaths == {FormatDirBase(DirOut, n) : n \in NamesNow} \cup NamesNow

\* Concurrent calls, nothing else touching the directory, no I/O fault.
Next ==
    \/ \E c \in Calls, n \in NamesNow, content \in Contents, dir \in OutputDirs :
           StartWriteNewFile(c, n, content, [outputDirectory |-> dir]) /\ UNCHANGED <<hist, app>>
    \/ \E c \in Calls, path \in DirectPaths, content \in Contents :
           StartTryCreateFile(c, path, content) /\ UNCHANGED <<hist, app>>
    \/ \E c \in Calls : Open(c) /\ UNCHANGED <<hist, app>>
    \/ \E c \in Calls : Write(c) /\ UNCHANGED <<hist, app>>
    \/ \E c \in Calls : LinkStep(c) /\ UNCHANGED <<hist, app>>
    \/ \E c \in Calls : RemoveTemp(c) /\ UNCHANGED <<hist, app>>
    \/ \E c \in Calls : Resume(c) /\ UNCHANGED <<hist, app>>
    \/ \E c \in Calls : Wake(c) /\ UNCHANGED <<hist, app>>
    \/ Tick /\ UNCHANGED <<hist, app>>

Spec == Init /\ [][Next]_vars

\* The same calls on a filesystem that may raise I/O faults.
FaultInit ==
    /\ Init!1 /\ Init!2 /\ Init!3 /\ Init!4 /\ Init!6 /\ Init!7 /\ Init!8
    /\ Init!9 /\ Init!10 /\ Init!11
    /\ faults = MaxFaults

FaultNext ==
    \/ \E c \in Calls, n \in NamesNow, content \in LiveContents, dir \in OutputDirs :
           StartWriteNewFile(c, n, content, [outputDirectory |-> dir]) /\ UNCHANGED <<hist, app>>
    \/ \E c \in Calls, path \in DirectPaths, content \in LiveContents :
           StartTryCreateFile(c, path, content) /\ UNCHANGED <<hist, app>>
    \/ \E c \in Calls : Open(c) /\ UNCHANGED <<hist, app>>
    \/ \E c \in Calls : Write(c) /\ UNCHANGED <<hist, app>>
    \/ \E c \in Calls : LinkStep(c) /\ UNCHANGED <<hist, app>>
    \/ \E c \in Calls : RemoveTemp(c) /\ UNCHANGED <<hist, app>>
    \/ \E c \in Calls : Resume(c) /\ UNCHANGED <<hist, app>>
    \/ \E c \in Calls : Wake(c) /\ UNCHANGED <<hist, app>>
    \/ Tick /\ UNCHANGED <<hist, app>>

FaultSpec == FaultInit /\ [][FaultNext]_vars

\* Sequential runs: one call at a time, files removed by hand between calls,
\* and a record of when each call ran and what it found.
NoneInFlight == \A c \in Calls : ~InFlight(c)

Observe ==
    hist' = [c \in Calls |->
        IF calls[c].pc = "idle" /\ calls'[c].pc # "idle"
        THEN [startSec |-> now \div 1000, s1Sec |-> 0, endSec |-> now \div 1000,
              pre |-> DOMAIN fs, before |-> {b \in Calls : Finished(b)}]
        ELSE IF calls[c].stage = "S0" /\ calls'[c].stage = "S1"
        THEN [hist[c] EXCEPT !.s1Sec = now \div 1000]
        ELSE IF InFlight(c) /\ calls'[c].pc \in {"returned", "threw"}
        THEN [hist[c] EXCEPT !.endSec = now \div 1000]
        ELSE hist[c]]

SeqNext ==
    \/ \E c \in Calls, n \in NamesNow, content \in Contents, dir \in OutputDirs :
           NoneInFlight /\ StartWriteNewFile(c, n, content, [outputDirectory |-> dir]) /\ Observe /\ UNCHANGED app
    \/ \E c \in Calls, path \in DirectPaths, content \in Contents :
           NoneInFlight /\ StartTryCreateFile(c, path, content) /\ Observe /\ UNCHANGED app
    \/ \E c \in Calls : Open(c) /\ Observe /\ UNCHANGED app
    \/ \E c \in Calls : Write(c) /\ Observe /\ UNCHANGED app
    \/ \E c \in Calls : LinkStep(c) /\ Observe /\ UNCHANGED app
    \/ \E c \in Calls : RemoveTemp(c) /\ Observe /\ UNCHANGED app
    \/ \E c \in Calls : Resume(c) /\ Observe /\ UNCHANGED app
    \/ \E c \in Calls : Wake(c) /\ Observe /\ UNCHANGED app
    \/ \E path \in DOMAIN fs : ExternalRemove(path) /\ UNCHANGED <<hist, app>>
    \/ Tick /\ UNCHANGED <<hist, app>>

SeqSpec == Init /\ [][SeqNext]_vars

\* Runs to completion: the event loop runs every continuation that is ready,
\* and the clock goes on for as long as a sleep(50) timer is pending.
TimerPending == \E c \in Calls : calls[c].pc = "sleep" /\ now < calls[c].sleepFrom + SleepMs

LiveTick ==
    /\ now + TickMs <= InitialMs + MaxLiveTicks * TickMs
    /\ TimerPending \/ now + TickMs <= InitialMs + MaxTicks * TickMs
    /\ now' = now + TickMs
    /\ UNCHANGED <<fs, fs0, calls, faults, firstLink, removed>>

CallStep(c) ==
    Open(c) \/ Write(c) \/ LinkStep(c) \/ RemoveTemp(c) \/ Resume(c) \/ Wake(c)

LiveNext ==
    \/ \E c \in Calls, n \in NamesNow, content \in LiveContents, dir \in OutputDirs :
           StartWriteNewFile(c, n, content, [outputDirectory |-> dir]) /\ UNCHANGED <<hist, app>>
    \/ \E c \in Calls, path \in DirectPaths, content \in LiveContents :
           StartTryCreateFile(c, path, content) /\ UNCHANGED <<hist, app>>
    \/ \E c \in Calls : Open(c) /\ UNCHANGED <<hist, app>>
    \/ \E c \in Calls : Write(c) /\ UNCHANGED <<hist, app>>
    \/ \E c \in Calls : LinkStep(c) /\ UNCHANGED <<hist, app>>
    \/ \E c \in Calls : RemoveTemp(c) /\ UNCHANGED <<hist, app>>
    \/ \E c \in Calls : Resume(c) /\ UNCHANGED <<hist, app>>
    \/ \E c \in Calls : Wake(c) /\ UNCHANGED <<hist, app>>
    \/ LiveTick /\ UNCHANGED <<hist, app>>

Fairness ==
    /\ \A c \in Calls : WF_vars(CallStep(c) /\ UNCHANGED <<hist, app>>)
    /\ WF_vars(LiveTick /\ UNCHANGED <<hist, app>>)

LiveSpec == Init /\ [][LiveNext]_vars /\ Fairness

\* Command line processes, each running main() once, on a filesystem that may
\* raise I/O faults.
CliNext ==
    \/ \E c \in Calls, args \in MainArgs : StartMain(c, args)
    \/ \E c \in Calls : MainSettle(c)
    \/ \E c \in Calls : Open(c) /\ UNCHANGED <<hist, app>>
    \/ \E c \in Calls : Write(c) /\ UNCHANGED <<hist, app>>
    \/ \E c \in Calls : LinkStep(c) /\ UNCHANGED <<hist, app>>
    \/ \E c \in Calls : RemoveTemp(c) /\ UNCHANGED <<hist, app>>
    \/ \E c \in Calls : Resume(c) /\ UNCHANGED <<hist, app>>
    \/ \E c \in Calls : Wake(c) /\ UNCHANGED <<hist, app>>
    \/ Tick /\ UNCHANGED <<hist, app>>

CliSpec == FaultInit /\ [][CliNext]_vars

\* A program that assigns WriteNewOptions.default between its calls of
\* writeNewFile, made with and without options.
DefaultChoices == {Null, [outputDirectory |-> DirOut], [outputDirectory |-> DirMissing]}
OptionsChoices == {Undefined, [outputDirectory |-> DirOut]}

OptionsNext ==
    \/ \E options \in DefaultChoices : SetDefault(options)
    \/ \E c \in Calls, n \in NamesNow, content \in LiveContents, options \in OptionsChoices :
           StartWriteNewFile(c, n, content, options) /\ UNCHANGED <<hist, app>>
    \/ \E c \in Calls : Open(c) /\ UNCHANGED <<hist, app>>
    \/ \E c \in Calls : Write(c) /\ UNCHANGED <<hist, app>>
    \/ \E c \in Calls : LinkStep(c) /\ UNCHANGED <<hist, app>>
    \/ \E c \in Calls : RemoveTemp(c) /\ UNCHANGED <<hist, app>>
    \/ \E c \in Calls : Resume(c) /\ UNCHANGED <<hist, app>>
    \/ \E c \in Calls : Wake(c) /\ UNCHANGED <<hist, app>>
    \/ Tick /\ UNCHANGED <<hist, app>>

OptionsSpec == Init /\ [][OptionsNext]_vars

\* Concurrent calls of writeNewFile while another process removes a file from
\* the directory. The run starts early enough in the Epoch second for a call
\* to make several attempts within that second.
ChurnInit ==
    /\ Init!1 /\ Init!2 /\ Init!4 /\ Init!5 /\ Init!6 /\ Init!7 /\ Init!8
    /\ Init!9 /\ Init!10 /\ Init!11
    /\ now = InitialMs - EarlyTicks * TickMs

ChurnNext ==
    \/ \E c \in Calls, n \in NamesNow, content \in LiveContents, dir \in OutputDirs :
           StartWriteNewFile(c, n, content, [outputDirectory |-> dir]) /\ UNCHANGED <<hist, app>>
    \/ \E c \in Calls : Open(c) /\ UNCHANGED <<hist, app>>
    \/ \E c \in Calls : Write(c) /\ UNCHANGED <<hist, app>>
    \/ \E c \in Calls : LinkStep(c) /\ UNCHANGED <<hist, app>>
    \/ \E c \in Calls : RemoveTemp(c) /\ UNCHANGED <<hist, app>>
    \/ \E c \in Calls : Resume(c) /\ UNCHANGED <<hist, app>>
    \/ \E c \in Calls : Wake(c) /\ UNCHANGED <<hist, app>>
    \/ \E path \in DOMAIN fs : Unlink(path) /\ UNCHANGED <<hist, app>>
    \/ Tick /\ UNCHANGED <<hist, app>>

ChurnSpec == ChurnInit /\ [][ChurnNext]_vars

----------------------------------------------------------------------------
\* Properties.

\* The temp entry of some call's current create attempt.
IsTempOfCall(p) == \E c \in Calls : calls[c].tempPath = p

\* The name of the entry starts with the reserved marker .__temp__
HasTempPrefix(p) ==
    LET base == Parse(p).base
    IN  Len(base) >= Len(TempMarker) /\ SubSeq(base, 1, Len(TempMarker)) = TempMarker

\* C1: no overwrite, append only. Every entry that is not a call's temp file
\* is still there, with the same content, after any step of any call, I/O
\* faults included.
NoOverwrite ==
    [][\A p \in DOMAIN fs :
           ~IsTempOfCall(p) => (p \in DOMAIN fs' /\ fs'[p] = fs[p])]_vars

\* C1 witness: a create attempt has collided with a file that was in the
\* directory from the start, and the file is as it was.
NoOverwriteWitness ==
    \E c \in Calls :
        /\ calls[c].pc = "resume" /\ calls[c].ret = "false"
        /\ calls[c].path \in DOMAIN fs0
        /\ calls[c].path \in DOMAIN fs /\ fs[calls[c].path] = fs0[calls[c].path]

\* C2: of the create attempts on one path that was free at the start, the one
\* whose link step came first is the only one to succeed, every other one
\* collides, and the path holds the first one's payload.
MutualExclusion ==
    \A p \in DOMAIN firstLink :
        p \notin DOMAIN fs0 =>
            /\ p \in DOMAIN fs /\ fs[p] = calls[firstLink[p]].data
            /\ \A c \in Calls :
                   (calls[c].path = p /\ calls[c].ret # "none") =>
                       /\ (calls[c].ret = "true") <=> (c = firstLink[p])
                       /\ (calls[c].ret = "false") <=> (c # firstLink[p])
                       /\ (calls[c].kind = "tcf" /\ calls[c].pc = "returned") =>
                              (calls[c].created <=> (c = firstLink[p]))

\* C2 witness: two direct tryCreateFile calls on one path have both returned,
\* one true and one false.
MutualExclusionWitness ==
    \E c1, c2 \in Calls :
        /\ c1 # c2 /\ calls[c1].kind = "tcf" /\ calls[c2].kind = "tcf"
        /\ calls[c1].pc = "returned" /\ calls[c2].pc = "returned"
        /\ calls[c1].path = calls[c2].path /\ calls[c1].path \notin DOMAIN fs0
        /\ calls[c1].created /\ ~calls[c2].created
        /\ calls[c1].data # calls[c2].data

\* C3: the paths concurrent writeNewFile calls return are pairwise distinct and
\* each holds the payload of the call that returned it.
DistinctPaths ==
    \A c1 \in Calls :
        (calls[c1].kind = "wnf" /\ calls[c1].pc = "returned") =>
            /\ calls[c1].result \in DOMAIN fs
            /\ fs[calls[c1].result] = calls[c1].data
            /\ \A c2 \in Calls \ {c1} :
                   (calls[c2].kind = "wnf" /\ calls[c2].pc = "returned") =>
                       calls[c2].result # calls[c1].result

\* C3 witness: two writeNewFile calls with the same proposed name and directory
\* but different payloads have both returned, and one had to take a suffix.
DistinctPathsWitness ==
    \E c1, c2 \in Calls :
        /\ c1 # c2 /\ calls[c1].kind = "wnf" /\ calls[c2].kind = "wnf"
        /\ calls[c1].pc = "returned" /\ calls[c2].pc = "returned"
        /\ calls[c1].filePath = calls[c2].filePath
        /\ calls[c1].data # calls[c2].data
        /\ calls[c1].stage = "S0" /\ calls[c2].stage # "S0"
        /\ fs0 = <<>>

\* An entry holds a complete payload: what it held at the start, or the whole
\* data of a call.
Complete(p) ==
    \/ p \in DOMAIN fs0 /\ fs[p] = fs0[p]
    \/ \E c \in Calls : calls[c].kind # "none" /\ fs[p] = calls[c].data

\* C4: atomic visibility. Every entry whose name does not carry the reserved
\* temp prefix holds a complete payload, at every moment.
AtomicVisibility ==
    \A p \in DOMAIN fs : ~HasTempPrefix(p) => Complete(p)

\* ---- Sequential runs ----

\* What the claims expect, spelled out independently of the code's path and
\* date helpers.
PlainPath(c) == calls[c].outputDirectory \o <<47>> \o calls[c].proposedFilename

ExpectedSplit(proposed) ==
    IF proposed = <<97, 46, 116>> THEN [name |-> <<97>>, ext |-> <<46, 116>>]
    ELSE [name |-> proposed, ext |-> <<>>]

TwoDigits(n) == <<48 + (n \div 10), 48 + (n % 10)>>

\* 2024-12-22-HH-mm-ss of the s-th second after 16:39:59
ExpectedStamp(s) ==
    LET t == 16 * 3600 + 39 * 60 + 59 + s
    IN  <<50, 48, 50, 52, 45, 49, 50, 45, 50, 50, 45>> \o TwoDigits(t \div 3600)
            \o <<45>> \o TwoDigits((t \div 60) % 60) \o <<45>> \o TwoDigits(t % 60)

\* <dir>/<base>~<suffix><ext>
ExpectedSuffixed(c, suffix) ==
    calls[c].outputDirectory \o <<47>> \o ExpectedSplit(calls[c].proposedFilename).name
        \o <<126>> \o suffix \o ExpectedSplit(calls[c].proposedFilename).ext

\* p is <dir>/<base>~<stamp>+<mmm><ext> with three decimal digits mmm
HasMsForm(c, stamp, p) ==
    LET head == calls[c].outputDirectory \o <<47>>
                    \o ExpectedSplit(calls[c].proposedFilename).name \o <<126>> \o stamp \o <<43>>
        ext == ExpectedSplit(calls[c].proposedFilename).ext
    IN  /\ Len(p) = Len(head) + 3 + Len(ext)
        /\ SubSeq(p, 1, Len(head)) = head
        /\ \A i \in (Len(head) + 1) .. (Len(head) + 3) : p[i] \in 48 .. 57
        /\ SubSeq(p, Len(head) + 4, Len(p)) = ext

\* Call c of writeNewFile returns in this step.
Returns(c) ==
    calls[c].kind = "wnf" /\ calls[c].pc # "returned" /\ calls'[c].pc = "returned"

\* The seconds the clock showed between the start of call c and now.
SecondsOfCall(c) == hist[c].startSec .. (now \div 1000)

\* C5: a writeNewFile call that finds no entry with the proposed name returns
\* <outputDirectory>/<name> unmodified, and that path then holds its payload.
PlainNameWhenFree ==
    [][\A c \in Calls :
           (Returns(c) /\ PlainPath(c) \notin hist[c].pre) =>
               /\ calls'[c].result = PlainPath(c)
               /\ PlainPath(c) \in DOMAIN fs'
               /\ fs'[PlainPath(c)] = calls[c].data]_vars

\* C5 witness: a call has returned the plain path from a directory without it.
PlainNameWhenFreeWitness ==
    \E c \in Calls :
        /\ calls[c].kind = "wnf" /\ calls[c].pc = "returned"
        /\ PlainPath(c) \notin hist[c].pre
        /\ calls[c].result = PlainPath(c)
        /\ fs[calls[c].result] = calls[c].data

\* C6: when the proposed name exists and the candidate for the second read in
\* step 1 does not, the call returns exactly base~<stamp>.ext, a path other
\* than the existing one, holding the new payload.
SecondSuffixWhenTaken ==
    [][\A c \in Calls :
           (/\ Returns(c)
            /\ PlainPath(c) \in hist[c].pre
            /\ ExpectedSuffixed(c, calls[c].baseDateStr) \notin hist[c].pre) =>
               /\ calls'[c].result = ExpectedSuffixed(c, calls[c].baseDateStr)
               /\ calls[c].baseDateStr \in {ExpectedStamp(sec) : sec \in SecondsOfCall(c)}
               /\ calls'[c].result # PlainPath(c)
               /\ calls'[c].result \in DOMAIN fs'
               /\ fs'[calls'[c].result] = calls[c].data
               /\ PlainPath(c) \in DOMAIN fs']_vars

\* C6 witness: a call found the plain name taken and returned the
\* second-suffixed name.
SecondSuffixWhenTakenWitness ==
    \E c \in Calls :
        /\ calls[c].kind = "wnf" /\ calls[c].pc = "returned" /\ calls[c].stage = "S1"
        /\ PlainPath(c) \in hist[c].pre
        /\ calls[c].result = ExpectedSuffixed(c, calls[c].baseDateStr)
        /\ fs[calls[c].result] = calls[c].data

\* C7 as stated: when the plain name and the name suffixed with the current
\* second (the one the call reads when it first comes to step 1) both exist,
\* the call returns base~<that second>+<mmm>.ext, a path that did not exist
\* before.
MsSuffixInSameSecond ==
    [][\A c \in Calls :
           (/\ Returns(c)
            /\ PlainPath(c) \in hist[c].pre
            /\ ExpectedSuffixed(c, ExpectedStamp(hist[c].s1Sec)) \in hist[c].pre) =>
               /\ HasMsForm(c, ExpectedStamp(hist[c].s1Sec), calls'[c].result)
               /\ calls'[c].result \notin hist[c].pre]_vars

\* C7 amended: the returned path never existed before the call and holds the
\* payload; and when the plain name and the name suffixed with the second S
\* last read in step 1 both exist, the returned path is base~S+<mmm>.ext. (A
\* new second during a sleep sends the call back to step 1 with that second.)
MsSuffixForLastSecond ==
    [][\A c \in Calls :
           Returns(c) =>
               /\ calls'[c].result \notin hist[c].pre
               /\ calls'[c].result \in DOMAIN fs'
               /\ fs'[calls'[c].result] = calls[c].data
               /\ (/\ PlainPath(c) \in hist[c].pre
                   /\ ExpectedSuffixed(c, calls[c].baseDateStr) \in hist[c].pre) =>
                      /\ HasMsForm(c, calls[c].baseDateStr, calls'[c].result)
                      /\ calls[c].baseDateStr \in {ExpectedStamp(sec) : sec \in SecondsOfCall(c)}]_vars

\* C7 witness: a call found the plain and the second-suffixed names taken and
\* returned a millisecond-suffixed name.
MsSuffixWitness ==
    \E c \in Calls :
        /\ calls[c].kind = "wnf" /\ calls[c].pc = "returned" /\ calls[c].stage = "S2"
        /\ PlainPath(c) \in hist[c].pre
        /\ ExpectedSuffixed(c, calls[c].baseDateStr) \in hist[c].pre
        /\ HasMsForm(c, calls[c].baseDateStr, calls[c].result)
        /\ fs[calls[c].result] = calls[c].data

\* C8: sequential writeNewFile calls with the same proposed name, all within
\* one clock second, return distinct paths in increasing character-code order.
LexOrderOfCalls ==
    \A i, j \in Calls :
        (/\ calls[i].kind = "wnf" /\ calls[i].pc = "returned"
         /\ calls[j].kind = "wnf" /\ calls[j].pc = "returned"
         /\ i \in hist[j].before
         /\ calls[i].filePath = calls[j].filePath
         /\ hist[i].startSec = hist[j].endSec
         /\ removed = {}) =>
            /\ calls[i].result # calls[j].result
            /\ LexLess(calls[i].result, calls[j].result)

\* C9: eventual success. With no I/O fault, every call of writeNewFile on an
\* existing output directory eventually returns a path, given that the clock
\* advances and every ready step of a call is eventually taken.
EventualSuccess ==
    \A c \in Calls :
        (calls[c].kind = "wnf" /\ calls[c].outputDirectory \in ExistingDirs)
            ~> (calls[c].pc = "returned" /\ calls[c].result \in DOMAIN fs)

EventualSuccessWitness ==
    \E c1, c2 \in Calls :
        /\ c1 # c2 /\ calls[c1].kind = "wnf" /\ calls[c2].kind = "wnf"
        /\ calls[c1].outputDirectory \in ExistingDirs
        /\ calls[c2].outputDirectory \in ExistingDirs
        /\ calls[c1].pc = "returned" /\ calls[c2].pc = "returned"
        /\ calls[c1].stage = "S2" /\ calls[c2].stage = "S1"
        /\ calls[c2].baseDateStr # calls[c1].baseDateStr
        /\ PlainPath(c1) \in DOMAIN fs0

\* C10: once a file in the way of the plain name has been removed, a new call
\* with that name returns the plain path and writes its payload there, whatever
\* suffixed entries remain.
PlainNameAfterRemoval ==
    [][\A c \in Calls :
           (/\ Returns(c)
            /\ PlainPath(c) \in removed
            /\ PlainPath(c) \notin hist[c].pre
            /\ \E b \in hist[c].before : calls[b].result \in hist[c].pre) =>
               /\ calls'[c].result = PlainPath(c)
               /\ calls'[c].stage = "S0"
               /\ fs'[PlainPath(c)] = calls[c].data]_vars

\* C10 witness: an earlier call collided on the plain name and took a suffix,
\* the file in its way was removed, and the next call returned the plain path
\* while the suffixed entry was still there.
PlainNameAfterRemovalWitness ==
    \E c \in Calls :
        /\ calls[c].kind = "wnf" /\ calls[c].pc = "returned"
        /\ calls[c].result = PlainPath(c)
        /\ PlainPath(c) \in removed /\ PlainPath(c) \in DOMAIN fs0
        /\ fs[PlainPath(c)] = calls[c].data
        /\ \E b \in hist[c].before :
               /\ calls[b].kind = "wnf" /\ calls[b].filePath = calls[c].filePath
               /\ calls[b].stage # "S0"
               /\ calls[b].result \in hist[c].pre

----------------------------------------------------------------------------
\* Outcomes and faults.

\* C11: an attempt decides false only at its link step, with the target name
\* present and the directory left as it was; it decides true only at its link
\* step, with the target name absent before and created by the step; a link
\* step that raises no other fault decides false exactly when the target name
\* is present; and the decision is the value tryCreateFile returns.
CollisionOutcome ==
    [][\A c \in Calls :
           LET r == calls[c]
               q == calls'[c]
           IN  /\ (q.ret = "false" /\ r.ret # "false") =>
                      /\ r.pc = "link" /\ r.path \in DOMAIN fs
                      /\ fs' = fs
               /\ (q.ret = "true" /\ r.ret # "true") =>
                      /\ r.pc = "link" /\ r.path \notin DOMAIN fs
                      /\ DOMAIN fs' = DOMAIN fs \cup {r.path}
                      /\ \A p \in DOMAIN fs : fs'[p] = fs[p]
               /\ (r.pc = "link" /\ q.pc = "remove" /\ q.ret # "throw") =>
                      ((q.ret = "false") = (r.path \in DOMAIN fs))
               /\ (r.pc = "remove" /\ q.pc = "resume") => q.ret = r.ret
               /\ (r.kind = "tcf" /\ r.pc = "resume" /\ q.pc = "returned") =>
                      (q.created = (r.ret = "true"))]_vars

CollisionOutcomeWitness ==
    \E c \in Calls :
        /\ calls[c].kind = "tcf" /\ calls[c].pc = "returned" /\ ~calls[c].created
        /\ calls[c].path \in DOMAIN fs0 /\ fs[calls[c].path] = fs0[calls[c].path]
        /\ DOMAIN fs = DOMAIN fs0
        /\ faults = MaxFaults

\* C12: a fault raised by open, write or link adds nothing to the directory,
\* passes through the finally block and out of tryCreateFile and writeNewFile
\* as the same fault, and ends the call: no step follows it. Only a link that
\* succeeds adds an entry other than the attempt's temp entry.
FaultPropagates ==
    [][\A c \in Calls :
           LET r == calls[c]
               q == calls'[c]
           IN  /\ (q.ret = "throw" /\ r.ret # "throw") =>
                      /\ r.pc \in {"open", "write", "link"}
                      /\ q.pc = "remove"
                      /\ q.err \in {"OpenFault", "WriteFault", "LinkFault", "NotFound"}
                      /\ fs' = fs
               /\ (r.ret = "throw" /\ r.pc = "remove" /\ q # r) =>
                      /\ q.pc = "resume" /\ q.ret = "throw" /\ q.err = r.err
                      /\ DOMAIN fs' \subseteq DOMAIN fs
                      /\ r.path \in DOMAIN fs' <=> r.path \in DOMAIN fs
               /\ (r.ret = "throw" /\ r.pc = "resume" /\ q # r) =>
                      /\ q.pc = "threw" /\ q.err = r.err
                      /\ q.path = r.path /\ q.stage = r.stage
                      /\ fs' = fs
               /\ r.pc = "threw" => q = r
               /\ (q # r /\ ~(q.ret = "true" /\ r.ret # "true")) =>
                      DOMAIN fs' \ DOMAIN fs \subseteq {r.tempPath}]_vars

FaultPropagatesWitness ==
    \E c \in Calls :
        /\ calls[c].kind = "wnf" /\ calls[c].pc = "threw" /\ calls[c].stage = "S1"
        /\ calls[c].err = "LinkFault"
        /\ calls[c].path \notin DOMAIN fs
        /\ calls[c].tempPath \notin DOMAIN fs

\* C13: a call of writeNewFile on a missing output directory ends at once with
\* NobodyCannaCrossIt, any other fault of the directory check ends it at once
\* with that fault; in both cases no attempt was begun (no candidate, no temp
\* path) and the directory is as it was.
MissingDirectoryFault ==
    [][\A c \in Calls :
           LET r == calls[c]
               q == calls'[c]
           IN  (r.pc = "idle" /\ q.pc # "idle" /\ q.kind = "wnf") =>
                   /\ q.outputDirectory = DirMissing =>
                          /\ q.pc = "threw" /\ q.err = "NobodyCannaCrossIt"
                   /\ q.outputDirectory # DirMissing =>
                          q.pc = "open" \/ (q.pc = "threw" /\ q.err = "IOFault")
                   /\ q.pc = "threw" =>
                          /\ q.stage = "none" /\ q.path = <<>> /\ q.tempPath = <<>>
                          /\ fs' = fs]_vars

MissingDirectoryFaultWitness ==
    \E c1, c2 \in Calls :
        /\ calls[c1].kind = "wnf" /\ calls[c1].pc = "threw"
        /\ calls[c1].outputDirectory = DirMissing
        /\ calls[c1].err = "NobodyCannaCrossIt" /\ calls[c1].tempPath = <<>>
        /\ calls[c2].kind = "wnf" /\ calls[c2].pc = "threw"
        /\ calls[c2].outputDirectory = DirOut
        /\ calls[c2].err = "IOFault" /\ calls[c2].tempPath = <<>>
        /\ fs = fs0

\* The entries of the directory that no run started with and no attempt
\* published: what is left of temp entries.
Leftovers ==
    (DOMAIN fs \ DOMAIN fs0)
        \ {calls[c].path : c \in {b \in Calls : calls[b].ret = "true"}}

\* C15: every attempt goes through the removal of its temp entry before
\* tryCreateFile completes, whatever it decided; after that step the temp entry
\* is gone unless the removal failed; once every call has completed and no
\* removal failed nothing is left of temp entries, and a target an attempt
\* created is in the directory with the attempt's payload.
TempCleanup ==
    /\ [](\A c \in Calls :
             /\ (calls[c].pc \in {"resume", "sleep", "returned", "threw"}
                     /\ calls[c].tempPath # <<>>) =>
                    \/ calls[c].tempPath \notin DOMAIN fs
                    \/ calls[c].tempPath \in calls[c].leaked
             /\ (Finished(c) /\ calls[c].ret = "true") =>
                    /\ calls[c].path \in DOMAIN fs
                    /\ fs[calls[c].path] = calls[c].data)
    /\ []((\A c \in Calls : ~InFlight(c) /\ calls[c].leaked = {}) =>
             /\ Leftovers = {}
             /\ \A p \in DOMAIN fs : ~HasTempPrefix(p))
    /\ [][\A c \in Calls :
              (calls'[c].pc = "resume" /\ calls[c].pc # "resume") =>
                  /\ calls[c].pc = "remove"
                  /\ calls[c].ret \in {"true", "false", "throw"}]_vars

TempCleanupWitness ==
    \E c1, c2 \in Calls :
        /\ calls[c1].pc = "threw" /\ calls[c1].err = "LinkFault"
        /\ calls[c2].pc = "returned" /\ calls[c2].ret = "true"
        /\ calls[c1].leaked = {} /\ calls[c2].leaked = {}
        /\ Leftovers = {}
        /\ DOMAIN fs = DOMAIN fs0 \cup {calls[c2].path}

\* C16: the removal of the temp entry, whether it succeeds or fails, leaves the
\* decision of the attempt (its value or its fault) and the target path as they
\* were, and a call throws only the fault an open, write or link raised.
CleanupFailureSilent ==
    [][\A c \in Calls :
           LET r == calls[c]
               q == calls'[c]
           IN  /\ (r.pc = "remove" /\ q.pc = "resume") =>
                      /\ q.ret = r.ret /\ q.err = r.err
                      /\ r.path \in DOMAIN fs' <=> r.path \in DOMAIN fs
                      /\ r.path \in DOMAIN fs => fs'[r.path] = fs[r.path]
               /\ (r.pc = "resume" /\ q.pc = "threw") =>
                      /\ r.ret = "throw"
                      /\ q.err \in {"OpenFault", "WriteFault", "LinkFault", "NotFound"}
               /\ (r.pc = "resume" /\ r.ret = "true" /\ q # r) =>
                      /\ q.pc = "returned"
                      /\ r.kind = "tcf" => q.created
                      /\ r.kind = "wnf" => q.result = r.path
               /\ (r.pc = "resume" /\ r.ret = "false" /\ q # r) =>
                      /\ r.kind = "tcf" => (q.pc = "returned" /\ ~q.created)
                      /\ r.kind = "wnf" => q.pc \in {"open", "sleep"}]_vars

CleanupFailureSilentWitness ==
    \E c \in Calls :
        /\ calls[c].kind = "wnf" /\ calls[c].pc = "returned"
        /\ calls[c].tempPath \in calls[c].leaked
        /\ calls[c].tempPath \in DOMAIN fs
        /\ calls[c].result \in DOMAIN fs /\ fs[calls[c].result] = calls[c].data

\* C17: within one call of writeNewFile each candidate path is greater, in
\* character-code order, than the candidate tried before it.
CandidatesIncrease ==
    [][\A c \in Calls :
           (/\ calls[c].kind = "wnf" /\ calls[c].path # <<>>
            /\ calls'[c].path # calls[c].path) =>
               LexLess(calls[c].path, calls'[c].path)]_vars

ThreeDigits(n) == <<48 + (n \div 100), 48 + ((n \div 10) % 10), 48 + (n % 10)>>

\* C18: when its sleep ends, not less than 50 ms after it began, the call reads
\* the clock; if the second of that reading is not the remembered one it goes
\* to step 1 with the stamp of the reading and makes no millisecond attempt,
\* otherwise its millisecond candidate carries the second and the milliseconds
\* of that very reading.
RolloverInS2 ==
    [][\A c \in Calls :
           (calls[c].pc = "sleep" /\ calls'[c] # calls[c]) =>
               LET stamp == ExpectedStamp(now \div 1000)
                   q == calls'[c]
               IN  /\ now >= calls[c].sleepFrom + 50
                   /\ q.pc = "open" /\ q.baseDateStr = stamp
                   /\ IF stamp # calls[c].baseDateStr
                      THEN /\ q.stage = "S1"
                           /\ q.path = ExpectedSuffixed(c, stamp)
                      ELSE /\ q.stage = "S2"
                           /\ q.path = ExpectedSuffixed(c, stamp \o <<43>> \o ThreeDigits(now % 1000))]_vars

RolloverInS2Witness ==
    \E c1, c2 \in Calls :
        /\ calls[c1].kind = "wnf" /\ calls[c1].stage = "S2"
        /\ calls[c1].baseDateStr = ExpectedStamp(0)
        /\ calls[c2].kind = "wnf" /\ calls[c2].stage = "S1" /\ calls[c2].pc = "open"
        /\ calls[c2].sleepFrom >= InitialMs
        /\ calls[c2].baseDateStr = ExpectedStamp(1)
        /\ calls[c2].path = ExpectedSuffixed(c2, ExpectedStamp(1))

\* C19: the temp path of every attempt is, in the directory of the target,
\* the marker .__temp__ followed by the target's base name, a dot and a token;
\* so it carries the reserved prefix, whether or not the target path has a
\* directory component.
TempNaming ==
    \A c \in Calls :
        (calls[c].tempPath # <<>> ) =>
            LET target == Parse(calls[c].path)
                prefix == (IF target.dir = <<>> THEN <<>> ELSE target.dir \o <<47>>)
                              \o TempMarker \o target.base \o <<46>>
                temp == calls[c].tempPath
            IN  /\ Len(temp) > Len(prefix)
                /\ SubSeq(temp, 1, Len(prefix)) = prefix
                /\ \A i \in (Len(prefix) + 1) .. Len(temp) : temp[i] \notin {47, 92}
                /\ HasTempPrefix(temp)

----------------------------------------------------------------------------
\* The command line and the default options.

\* C14: a process that ran main() and exited with status 0 printed the usage,
\* or the path writeNewFile returned, on standard output and nothing on
\* standard error; one that exited with another status exited with 1 after
\* writeNewFile threw, printed nothing on standard output and the error on
\* standard error; a process whose write failed never has status 0.
CliExitStatus ==
    \A c \in Calls :
        cli[c].main =>
            /\ cli[c].exitCode \in {-1, 0, 1}
            /\ cli[c].exitCode = -1 => (cli[c].stdout = <<>> /\ cli[c].stderr = <<>>)
            /\ cli[c].exitCode = 0 =>
                   /\ cli[c].stderr = <<>>
                   /\ \/ calls[c].kind = "main" /\ cli[c].stdout = <<Usage>>
                      \/ /\ calls[c].kind = "wnf" /\ calls[c].pc = "returned"
                         /\ cli[c].stdout = <<calls[c].result>>
                         /\ calls[c].result \in DOMAIN fs
            /\ cli[c].exitCode = 1 =>
                   /\ calls[c].kind = "wnf" /\ calls[c].pc = "threw"
                   /\ cli[c].stdout = <<>>
                   /\ cli[c].stderr = <<[message |-> "Error writing file: ",
                                         err |-> calls[c].err]>>
            /\ calls[c].pc = "threw" => cli[c].exitCode # 0

CliExitStatusWitness ==
    \E c1, c2 \in Calls :
        /\ cli[c1].main /\ cli[c1].exitCode = 0
        /\ calls[c1].kind = "wnf" /\ calls[c1].stage = "S1"
        /\ cli[c1].stdout = <<calls[c1].result>>
        /\ cli[c2].main /\ cli[c2].exitCode = 1
        /\ calls[c2].err = "LinkFault"
        /\ cli[c2].stderr # <<>>

\* What a read of WriteNewOptions.default is expected to give.
ExpectedDefault ==
    IF lastSet \in {Never, Null} THEN [outputDirectory |-> <<99>>] ELSE lastSet

\* C20: a read of WriteNewOptions.default gives the value last assigned to it,
\* or the current working directory when null was assigned last or nothing
\* ever was; writeNewFile writes to the directory of the options it is given,
\* and to that of WriteNewOptions.default, as read at the call, when given none.
DefaultOptionsLaw ==
    /\ [](DefaultOptionsGet(defaultOptions) = ExpectedDefault)
    /\ [][\A c \in Calls :
              (calls[c].pc = "idle" /\ calls'[c].kind = "wnf") =>
                  calls'[c].outputDirectory =
                      IF calls'[c].options \in {Undefined, Null}
                      THEN ExpectedDefault.outputDirectory
                      ELSE calls'[c].options.outputDirectory]_vars

DefaultOptionsLawWitness ==
    \E c1, c2 \in Calls :
        /\ lastSet = Null
        /\ calls[c1].kind = "wnf" /\ calls[c1].options = Undefined
        /\ calls[c1].outputDirectory = DirMissing /\ calls[c1].pc = "threw"
        /\ calls[c2].kind = "wnf" /\ calls[c2].options = Undefined
        /\ calls[c2].outputDirectory = <<99>> /\ calls[c2].pc = "returned"

\* The characters of the last component of a path.
BaseChars(path) == {Parse(path).base[i] : i \in 1 .. Len(Parse(path).base)}

\* C21: the first create attempt of a writeNewFile call, and no later one, is
\* for the plain proposed name; a call whose plain attempt collided returns a
\* path other than the plain one, with a ~ in its name, even when the plain
\* name was removed from the directory meanwhile.
PlainNameOnce ==
    /\ [][\A c \in Calls :
              (calls'[c].kind = "wnf" /\ calls'[c].pc = "open" /\ calls[c].pc # "open") =>
                  (calls[c].pc = "idle" <=> calls'[c].path = calls'[c].filePath)]_vars
    /\ [](\A c \in Calls :
              (calls[c].kind = "wnf" /\ calls[c].pc = "returned" /\ calls[c].stage # "S0") =>
                  /\ calls[c].result # calls[c].filePath
                  /\ Tilde[1] \in BaseChars(calls[c].result))

PlainNameOnceWitness ==
    \E c \in Calls :
        /\ calls[c].kind = "wnf" /\ calls[c].pc = "returned" /\ calls[c].stage # "S0"
        /\ calls[c].filePath \in removed
        /\ calls[c].filePath \notin DOMAIN fs
        /\ \A b \in Calls \ {c} : calls[b].pc = "idle"

\* The entries a call has created under their final names: the paths, absent at
\* the start of the run, that its link step was the first to reach.
CreatedBy(c) == {p \in DOMAIN firstLink : firstLink[p] = c /\ p \notin DOMAIN fs0}

\* C22: a writeNewFile call creates at most one non-temp entry; once it has
\* returned, that entry is the path it returned and the path of its attempt
\* that gave true; a call that threw created none, and so did every attempt
\* that collided or faulted. No non-temp entry appears in the directory other
\* than by a link step that succeeds.
OneEntryPerCall ==
    /\ [](\A c \in Calls : calls[c].kind = "wnf" =>
              /\ Cardinality(CreatedBy(c)) <= 1
              /\ CreatedBy(c) # {} => (calls[c].ret = "true" /\ CreatedBy(c) = {calls[c].path})
              /\ calls[c].pc = "returned" => CreatedBy(c) = {calls[c].result}
              /\ calls[c].pc = "threw" => CreatedBy(c) = {}
              /\ calls[c].ret \in {"false", "throw"} => CreatedBy(c) = {})
    /\ [][\A p \in (DOMAIN fs') \ (DOMAIN fs) :
              \/ \E c \in Calls : p = calls'[c].tempPath
              \/ \E c \in Calls :
                     /\ calls[c].pc = "link" /\ calls'[c].ret = "true"
                     /\ p = calls[c].path
                     /\ firstLink'[p] = c]_vars

OneEntryPerCallWitness ==
    \E c1, c2 \in Calls :
        /\ calls[c1].kind = "wnf" /\ calls[c1].pc = "returned" /\ calls[c1].stage = "S1"
        /\ CreatedBy(c1) = {calls[c1].result}
        /\ calls[c1].result \in DOMAIN fs
        /\ calls[c2].kind = "wnf" /\ calls[c2].pc = "threw" /\ calls[c2].err = "LinkFault"
        /\ CreatedBy(c2) = {}
        /\ \A p \in DOMAIN fs : p \in DOMAIN fs0 \/ p = calls[c1].result

\* C23: every candidate path of a writeNewFile call lies in the directory the
\* call resolved when it started; that directory never changes during the
\* call, and an assignment to WriteNewOptions.default changes no call.
DirectoryFixedAtStart ==
    /\ [](\A c \in Calls : (calls[c].kind = "wnf" /\ calls[c].path # <<>>) =>
              /\ Parse(calls[c].path).dir = calls[c].outputDirectory
              /\ Parse(calls[c].filePath).dir = calls[c].outputDirectory)
    /\ [][\A c \in Calls : calls[c].kind = "wnf" =>
              /\ calls'[c].outputDirectory = calls[c].outputDirectory
              /\ calls'[c].filePath = calls[c].filePath]_vars
    /\ [][(defaultOptions' # defaultOptions \/ lastSet' # lastSet) => calls' = calls]_vars

DirectoryFixedAtStartWitness ==
    \E c1, c2 \in Calls :
        /\ calls[c1].kind = "wnf" /\ calls[c1].options = Undefined
        /\ calls[c1].outputDirectory = DirOut
        /\ calls[c1].stage = "S2" /\ calls[c1].pc = "returned"
        /\ Parse(calls[c1].result).dir = DirOut
        /\ calls[c2].kind = "wnf" /\ calls[c2].options = Undefined
        /\ calls[c2].outputDirectory = DirMissing
        /\ DefaultOptionsGet(defaultOptions).outputDirectory = <<99>>

\* C24: with a clock that only advances, and by more than the sleep between two
\* reads, no call of writeNewFile attempts a candidate path twice; a
\* millisecond candidate follows an attempt under the same second stamp, and is
\* greater than the millisecond candidate before it; a second-resolution
\* candidate of the loop has a stamp other than the one just abandoned.
NoCandidateTwice ==
    \A c \in Calls : calls[c].kind = "wnf" =>
        LET tried == calls[c].tried
        IN  /\ \A i, j \in 1 .. Len(tried) : i < j => tried[i].path # tried[j].path
            /\ \A i \in 2 .. (Len(tried) - 1) :
                   /\ tried[i + 1].stage = "S2" =>
                          /\ tried[i + 1].baseDateStr = tried[i].baseDateStr
                          /\ tried[i].stage = "S2" =>
                                 LexLess(tried[i].path, tried[i + 1].path)
                   /\ tried[i + 1].stage = "S1" =>
                          tried[i + 1].baseDateStr # tried[i].baseDateStr

NoCandidateTwiceWitness ==
    \E c1, c2 \in Calls :
        /\ calls[c1].kind = "wnf" /\ calls[c1].pc = "returned"
        /\ calls[c2].kind = "wnf" /\ calls[c2].pc = "returned"
        /\ Len(calls[c2].tried) = 4
        /\ calls[c2].tried[3].stage = "S2" /\ calls[c2].tried[4].stage = "S2"
        /\ calls[c2].tried[3].path = calls[c1].result
        /\ LexLess(calls[c1].result, calls[c2].result)

\* A call inside tryCreateFile, between its Deno.open and the end of its finally.
InTryCreateFile(c) == calls[c].pc \in {"open", "write", "link", "remove"}

\* Entry p is the same before and after the step.
SameEntry(p) ==
    IF p \in DOMAIN fs THEN p \in DOMAIN fs' /\ fs'[p] = fs[p] ELSE p \notin DOMAIN fs'

\* C25: a step of tryCreateFile changes no entry other than its own temp entry
\* and its target; the target changes only by being created, with the data of
\* the call, when it was absent; the temp entries of the other calls inside
\* tryCreateFile are left as they were. Nothing else changes the directory.
TryCreateFileFrame ==
    [][fs' # fs =>
          \E c \in Calls :
              /\ InTryCreateFile(c) /\ calls'[c].pc # calls[c].pc
              /\ \A p \in (DOMAIN fs \cup DOMAIN fs') \ {calls[c].tempPath, calls[c].path} :
                     SameEntry(p)
              /\ calls[c].path \in DOMAIN fs => SameEntry(calls[c].path)
              /\ calls[c].path \in DOMAIN fs' \ DOMAIN fs =>
                     /\ calls[c].pc = "link"
                     /\ fs'[calls[c].path] = calls[c].data
              /\ \A b \in Calls \ {c} : InTryCreateFile(b) => SameEntry(calls[b].tempPath)]_vars

TryCreateFileFrameWitness ==
    \E c1, c2 \in Calls :
        /\ c1 # c2 /\ calls[c1].kind = "tcf" /\ calls[c2].kind = "tcf"
        /\ calls[c1].path = calls[c2].path
        /\ calls[c1].pc = "resume" /\ calls[c1].ret = "true"
        /\ calls[c1].tempPath \notin DOMAIN fs
        /\ calls[c2].pc = "link"
        /\ calls[c2].tempPath \in DOMAIN fs
        /\ fs[calls[c2].tempPath] = calls[c2].data
        /\ fs[calls[c1].path] = calls[c1].data

====
